---- MODULE Spec2Model ----
(***************************************************************************)
(* A model of xlsx_version/parse_workouts.py: one run of                   *)
(* parse_workouts_excel() reads workouts.xlsx, dumps every sheet to        *)
(* workouts_data.json, collects four reference sets from five fixed column *)
(* labels and writes three markdown files under ../docs.                   *)
(*                                                                         *)
(* Text is a sequence of one-character strings, so that split(','),        *)
(* strip(), isoformat() and the ordering used by sorted() are computed     *)
(* rather than assumed.                                                    *)
(***************************************************************************)
EXTENDS Integers, Sequences, FiniteSets, TLC

VARIABLES
    pandasKeepsNA,  \* which pandas is installed: TRUE when DataFrame.where(cond, None)
                    \* keeps NaN/NaT in float64/datetime64 columns (pandas >= 1.3)
    exists,         \* workouts.xlsx exists
    workbook,       \* the content of workouts.xlsx: a sequence of sheets
    files,          \* the four output files
    docsDir,        \* ../docs exists
    pc,             \* position of the current run
    runs,           \* number of runs started
    stdout,         \* lines printed by the current run
    sheets_data,    \* local of parse_workouts_excel
    refsets,        \* locals main_movements, accessory_movements, workout_formats, intensity_levels
    raised,         \* the uncaught exception that ended the run, or "none"
    opened,         \* the output files the current run has opened for writing, in order
    atStart         \* files and docsDir as they were when the current run started

vars == <<pandasKeepsNA, exists, workbook, files, docsDir, pc, runs, stdout,
          sheets_data, refsets, raised, opened, atStart>>

----------------------------------------------------------------------------
(* Bounds of the model *)

MaxRows == 2      \* rows in a whole workbook of the grid family
MaxLen  == 3      \* characters in a cell text of the text family
MaxRuns == 2      \* successive runs of the tool

SheetNames == <<"Push", "Pull">>
Alphabet   == {"a", "b", ",", " "}

----------------------------------------------------------------------------
(* Fixed names of the program *)

excel_path  == "workouts.xlsx"
output_path == "workouts_data.json"
MovementsMd == "../docs/movements.md"
FormatsMd   == "../docs/workout_formats.md"
IntensityMd == "../docs/intensity_levels.md"
OutputFiles == {output_path, MovementsMd, FormatsMd, IntensityMd}
MarkdownFiles == {MovementsMd, FormatsMd, IntensityMd}

U3 == "Unnamed: 3"
U5 == "Unnamed: 5"
U7 == "Unnamed: 7"
U8 == "Unnamed: 8"
U9 == "Unnamed: 9"
DateCol == "Date"
ExtractLabels == {U3, U5, U7, U8, U9}
Labels == ExtractLabels \cup {DateCol}

----------------------------------------------------------------------------
(* Cell values of a workbook *)

Empty      == [k |-> "empty"]
Num(n)     == [k |-> "num", v |-> n]
Txt(s)     == [k |-> "text", s |-> s]
DateTime(y, mo, d, h, mi, sec) ==
    [k |-> "date", y |-> y, mo |-> mo, d |-> d, h |-> h, mi |-> mi, sec |-> sec]

Texts == UNION {[1..n -> Alphabet] : n \in 1..MaxLen}

\* The cells of the grid family: blank, a falsy number, two numbers whose
\* numeric and textual orders differ, two texts; dates sit in the Date column.
GridCells(L) ==
    IF L = DateCol
    THEN {Empty, Txt(<<"b">>), DateTime(2024, 1, 2, 0, 0, 0), DateTime(2023, 11, 30, 18, 5, 9)}
    ELSE {Empty, Num(0), Num(9), Num(10), Txt(<<"a">>), Txt(<<"b">>)}

CellSeqs(D) == UNION {[1..n -> D] : n \in 0..MaxRows}

\* A sheet as the reader sees it, projected on the columns the model follows;
\* the header row is above rows[1].
Sheet(name, L, cells) ==
    [name |-> name, cols |-> {L}, rows |-> [i \in 1..Len(cells) |-> (L :> cells[i])]]

\* One column label, one or two sheets, at most MaxRows rows in the workbook.
GridBooks ==
    UNION {
      {<<Sheet(SheetNames[1], L, c)>> : c \in CellSeqs(GridCells(L))}
      \cup
      {<<Sheet(SheetNames[1], L, c[1]), Sheet(SheetNames[2], L, c[2])>> :
          c \in {p \in CellSeqs(GridCells(L)) \X CellSeqs(GridCells(L)) :
                    Len(p[1]) + Len(p[2]) <= MaxRows}}
      : L \in Labels}

\* One sheet of one row holding one text of up to MaxLen characters.
TextBooks ==
    {<<Sheet(SheetNames[1], L, <<Txt(t)>>)>> : L \in ExtractLabels, t \in Texts}

\* One sheet of one row with every column present, each blank or filled.
WideRows ==
    {r \in [Labels -> {Empty, Txt(<<"b", ",", "a">>), DateTime(2024, 1, 2, 0, 0, 0)}] :
        /\ r[DateCol].k # "text"
        /\ \A L \in ExtractLabels : r[L].k # "date"}

WideBooks ==
    {<<[name |-> SheetNames[2], cols |-> Labels, rows |-> <<r>>]>> : r \in WideRows}

Workbooks == GridBooks \cup TextBooks \cup WideBooks

----------------------------------------------------------------------------
(* Python values held by the DataFrame, the row dicts and the sets *)

PyNone        == [k |-> "None"]
PyNaN(id)     == [k |-> "nan", id |-> id]          \* a float nan object; id tells objects apart
PyNaT         == [k |-> "NaT"]
PyStr(s)      == [k |-> "str", s |-> s]
PyNum(v, fl)  == [k |-> "num", v |-> v, fl |-> fl] \* fl: a float rather than an int
PyTimestamp(c) ==
    [k |-> "datetime", y |-> c.y, mo |-> c.mo, d |-> c.d, h |-> c.h, mi |-> c.mi, sec |-> c.sec]

DigitChars == <<"0", "1", "2", "3", "4", "5", "6", "7", "8", "9">>

\* n as w decimal digits, zero padded
Pad(n, w) == [i \in 1..w |-> DigitChars[((n \div (10 ^ (w - i))) % 10) + 1]]

RECURSIVE DigitsOf(_)
DigitsOf(n) ==
    IF n < 10 THEN <<DigitChars[n + 1]>>
    ELSE DigitsOf(n \div 10) \o <<DigitChars[(n % 10) + 1]>>

\* datetime.isoformat() / Timestamp.isoformat(); NaT.isoformat() is "NaT"
isoformat(obj) ==
    IF obj.k = "NaT" THEN <<"N", "a", "T">>
    ELSE Pad(obj.y, 4) \o <<"-">> \o Pad(obj.mo, 2) \o <<"-">> \o Pad(obj.d, 2)
         \o <<"T">> \o Pad(obj.h, 2) \o <<":">> \o Pad(obj.mi, 2) \o <<":">> \o Pad(obj.sec, 2)

\* isinstance(obj, (datetime.datetime, datetime.date)): Timestamp and NaT
\* both derive from datetime.datetime
IsDateTimeInstance(obj) == obj.k \in {"datetime", "NaT"}

\* str(obj) in place of obj.isoformat(): a blank separates date and time
convert_for_json_str(obj) ==
    IF IsDateTimeInstance(obj)
    THEN PyStr([i \in 1..Len(isoformat(obj)) |->
                  IF isoformat(obj)[i] = "T" THEN " " ELSE isoformat(obj)[i]])
    ELSE obj

convert_for_json(obj) ==
    IF IsDateTimeInstance(obj) THEN PyStr(isoformat(obj)) ELSE obj

----------------------------------------------------------------------------
(* Workbook Reader: pd.ExcelFile, pd.read_excel, df.where(...).to_dict *)

ColumnCells(sheet, L) == {sheet.rows[i][L] : i \in 1..Len(sheet.rows)}

\* The dtype read_excel infers for a column
ColumnDtype(sheet, L) ==
    LET kinds == {c.k : c \in ColumnCells(sheet, L)} IN
    IF kinds \subseteq {"num", "empty"}
    THEN (IF "empty" \in kinds THEN "float64" ELSE "int64")
    ELSE IF kinds \subseteq {"date", "empty"} THEN "datetime64"
    ELSE "object"

\* The value the DataFrame holds for a cell; id names the cell
ReadCell(dtype, cell, id) ==
    CASE cell.k = "empty" -> (IF dtype = "datetime64" THEN PyNaT ELSE PyNaN(id))
      [] cell.k = "num"   -> PyNum(cell.v, dtype = "float64")
      [] cell.k = "text"  -> PyStr(cell.s)
      [] cell.k = "date"  -> PyTimestamp(cell)

notna(v) == v.k \notin {"nan", "NaT", "None"}

\* df.where(pd.notna(df), None), one value of a column of the given dtype.
\* Up to pandas 1.2 the column is upcast to object and holds None; from
\* pandas 1.3 on None is taken as the dtype's own missing value, so a
\* float64 column keeps NaN and a datetime64 column keeps NaT.
WhereNotnaNone(dtype, v) ==
    IF notna(v) THEN v
    ELSE IF pandasKeepsNA /\ dtype \in {"float64", "datetime64"} THEN v
    ELSE PyNone

\* the first data row taken for a second header line and dropped
SheetRecords_SkipFirst(sheet, si) ==
    [i \in 1..(Len(sheet.rows) - 1) |->
        [L \in sheet.cols |->
            WhereNotnaNone(ColumnDtype(sheet, L),
                           ReadCell(ColumnDtype(sheet, L), sheet.rows[i + 1][L], <<si, i + 1, L>>))]]

\* to_dict(orient='records') of one sheet
SheetRecords(sheet, si) ==
    [i \in 1..Len(sheet.rows) |->
        [L \in sheet.cols |->
            WhereNotnaNone(ColumnDtype(sheet, L),
                           ReadCell(ColumnDtype(sheet, L), sheet.rows[i][L], <<si, i, L>>))]]

\* the loop over xl.sheet_names: a dict in insertion order
ReadAllSheets(wb) ==
    [si \in 1..Len(wb) |-> [name |-> wb[si].name, rows |-> SheetRecords(wb[si], si)]]

----------------------------------------------------------------------------
(* Serializer: json.dump(sheets_data, f, indent=2, default=convert_for_json) *)

JNull      == [k |-> "null"]
JNaN       == [k |-> "NaN"]
JString(s) == [k |-> "string", s |-> s]
JNumber(v, fl) == [k |-> "number", v |-> v, fl |-> fl]
JFail      == [k |-> "unserializable"]

NativelySerializable(v) == v.k \in {"str", "None", "num", "nan"}

EncodeNative(v) ==
    CASE v.k = "str"  -> JString(v.s)
      [] v.k = "None" -> JNull
      [] v.k = "num"  -> JNumber(v.v, v.fl)
      [] v.k = "nan"  -> JNaN

\* the encoder calls default only for what it cannot serialize itself; a
\* default that hands back such an object again ends in ValueError
JsonEncode(v) ==
    IF NativelySerializable(v) THEN EncodeNative(v)
    ELSE LET c == convert_for_json(v) IN
         IF NativelySerializable(c) THEN EncodeNative(c) ELSE JFail

JsonDocument(data) ==
    [si \in 1..Len(data) |->
        [key  |-> data[si].name,
         rows |-> [i \in 1..Len(data[si].rows) |->
                     [L \in DOMAIN data[si].rows[i] |-> JsonEncode(data[si].rows[i][L])]]]]

JsonFails(doc) ==
    \E si \in 1..Len(doc) : \E i \in 1..Len(doc[si].rows) :
        \E L \in DOMAIN doc[si].rows[i] : doc[si].rows[i][L] = JFail

----------------------------------------------------------------------------
(* Reference Extractor *)

\* bool(v): None, 0 and 0.0 are falsy; nan and every non-empty str are truthy
Truthy(v) ==
    CASE v.k = "None" -> FALSE
      [] v.k = "num"  -> v.v # 0
      [] v.k = "str"  -> Len(v.s) > 0
      [] OTHER        -> TRUE

\* a == b for the values a set can hold
PyEq(a, b) ==
    /\ a.k = b.k
    /\ (IF a.k = "num" THEN a.v = b.v ELSE a = b)

\* set.add(x): an equal member already present is kept
SetAdd(set, x) == IF \E y \in set : PyEq(x, y) THEN set ELSE set \cup {x}

\* str.split(sep): every segment between separators, empty ones included
RECURSIVE split(_, _)
split(s, sep) ==
    IF \A i \in 1..Len(s) : s[i] # sep THEN <<s>>
    ELSE LET i == CHOOSE j \in 1..Len(s) :
                     s[j] = sep /\ \A m \in 1..(j - 1) : s[m] # sep
         IN <<SubSeq(s, 1, i - 1)>> \o split(SubSeq(s, i + 1, Len(s)), sep)

Whitespace == {" "}

\* str.strip()
RECURSIVE strip(_)
strip(s) ==
    IF s = <<>> THEN s
    ELSE IF Head(s) \in Whitespace THEN strip(Tail(s))
    ELSE IF s[Len(s)] \in Whitespace THEN strip(SubSeq(s, 1, Len(s) - 1))
    ELSE s

\* for movement in cell.split(','): accessory_movements.add(movement.strip())
RECURSIVE AddSegments(_, _)
AddSegments(set, segs) ==
    IF segs = <<>> THEN set
    ELSE AddSegments(SetAdd(set, PyStr(strip(Head(segs)))), Tail(segs))

EmptySets ==
    [main |-> {}, accessory |-> {}, formats |-> {}, intensity |-> {}, err |-> "none"]

Selected(row, L) == L \in DOMAIN row /\ Truthy(row[L])

\* if L in row and row[L]: <set>.add(row[L])
AddWhole(st, row, L, field) ==
    IF st.err = "none" /\ Selected(row, L)
    THEN [st EXCEPT ![field] = SetAdd(@, row[L])]
    ELSE st

\* the cell added whole, as for the main-movement column
AddAccessory_Whole(st, row, L) ==
    IF st.err = "none" /\ Selected(row, L)
    THEN IF row[L].k = "str"
         THEN [st EXCEPT !.accessory = SetAdd(@, PyStr(strip(row[L].s)))]
         ELSE [st EXCEPT !.err = "AttributeError"]
    ELSE st

\* if L in row and row[L]: for movement in row[L].split(','): ...
\* only str has split: any other truthy value raises AttributeError
AddAccessory(st, row, L) ==
    IF st.err = "none" /\ Selected(row, L)
    THEN IF row[L].k = "str"
         THEN [st EXCEPT !.accessory = AddSegments(@, split(row[L].s, ","))]
         ELSE [st EXCEPT !.err = "AttributeError"]
    ELSE st

\* the body of the loop over rows
ExtractRow(st, row) ==
    LET s1 == AddWhole(st, row, U3, "main")
        s2 == AddAccessory(s1, row, U5)
        s3 == AddAccessory(s2, row, U9)
        s4 == AddWhole(s3, row, U8, "formats")
    IN AddWhole(s4, row, U7, "intensity")

RECURSIVE AllRows(_)
AllRows(data) ==
    IF data = <<>> THEN <<>> ELSE Head(data).rows \o AllRows(Tail(data))

RECURSIVE ExtractRows(_, _)
ExtractRows(st, rows) ==
    IF rows = <<>> THEN st ELSE ExtractRows(ExtractRow(st, Head(rows)), Tail(rows))

ExtractAll(data) == ExtractRows(EmptySets, AllRows(data))

----------------------------------------------------------------------------
(* Markdown Writer *)

\* code points of the characters in use
Ord(c) ==
    CASE c = " " -> 32 [] c = "," -> 44 [] c = "." -> 46
      [] c = "0" -> 48 [] c = "1" -> 49 [] c = "2" -> 50 [] c = "3" -> 51
      [] c = "4" -> 52 [] c = "5" -> 53 [] c = "6" -> 54 [] c = "7" -> 55
      [] c = "8" -> 56 [] c = "9" -> 57
      [] c = "a" -> 97 [] c = "b" -> 98 [] c = "n" -> 110

\* s < t for str: the first differing character decides, a proper prefix is less
StrLess(s, t) ==
    \E i \in 1..(Len(t)) :
        /\ \A j \in 1..(i - 1) : j <= Len(s) /\ s[j] = t[j]
        /\ (i > Len(s) \/ (i <= Len(s) /\ Ord(s[i]) < Ord(t[i])))

\* a < b as sorted() evaluates it; every comparison with a nan is False
PyLess(a, b) ==
    CASE a.k = "str" /\ b.k = "str" -> StrLess(a.s, b.s)
      [] a.k = "num" /\ b.k = "num" -> a.v < b.v
      [] OTHER -> FALSE

\* str and numbers do not compare: TypeError
SortRaises(set) == \E a, b \in set : (a.k = "str") # (b.k = "str")

RECURSIVE Ascending(_)
Ascending(set) ==
    IF set = {} THEN <<>>
    ELSE LET m == CHOOSE x \in set : \A y \in set : ~PyLess(y, x)
         IN <<m>> \o Ascending(set \ {m})

RECURSIVE Descending(_)
Descending(set) ==
    IF set = {} THEN <<>>
    ELSE LET m == CHOOSE x \in set : \A y \in set : ~PyLess(x, y)
         IN <<m>> \o Descending(set \ {m})

\* sorted(..., reverse=True)
sorted_Reverse(set) == Descending(set)

\* sorted(set) when it does not raise. With nan members Python leaves them
\* where the set's iteration order put them; they all print alike and are
\* placed after the numbers here.
sorted(set) ==
    Ascending({x \in set : x.k # "nan"}) \o Ascending({x \in set : x.k = "nan"})

\* str(v) as an f-string formats it
Render(v) ==
    CASE v.k = "str" -> v.s
      [] v.k = "num" -> (IF v.fl THEN DigitsOf(v.v) \o <<".", "0">> ELSE DigitsOf(v.v))
      [] v.k = "nan" -> <<"n", "a", "n">>

TextLine(str) == [kind |-> "text", str |-> str, item |-> <<>>]
BlankLine     == [kind |-> "blank", str |-> "", item |-> <<>>]
Bullet(v)     == [kind |-> "bullet", str |-> "- ", item |-> Render(v)]

Bullets(set) == [i \in 1..Cardinality(set) |-> Bullet(sorted(set)[i])]

----------------------------------------------------------------------------
(* Files *)

Absent == [st |-> "absent", body |-> <<>>]
Stale  == [st |-> "stale", body |-> <<>>]     \* left by something else

\* open(path, 'a'): what the file held is kept
OpenA(old) == [st |-> "written", body |-> old.body]

\* open(path, 'w'): the file is created or truncated
OpenW(old) == [st |-> "written", body |-> <<>>]

Write(content, lines) == [content EXCEPT !.body = @ \o lines]

----------------------------------------------------------------------------
(* The state machine *)

InitialFiles ==
    { [files |-> [f \in OutputFiles |-> Absent], docsDir |-> FALSE],
      [files |-> [f \in OutputFiles |-> IF f = output_path THEN Stale ELSE Absent],
       docsDir |-> FALSE],
      [files |-> [f \in OutputFiles |-> Stale], docsDir |-> TRUE] }

Init ==
    /\ pandasKeepsNA \in BOOLEAN
    /\ exists \in BOOLEAN
    /\ workbook \in (IF exists THEN Workbooks ELSE {<<>>})
    /\ \E fs \in InitialFiles :
          /\ files = fs.files
          /\ docsDir = fs.docsDir
          /\ atStart = fs
    /\ pc = "idle"
    /\ runs = 0
    /\ stdout = <<>>
    /\ sheets_data = <<>>
    /\ refsets = EmptySets
    /\ raised = "none"
    /\ opened = <<>>

\* python parse_workouts.py: a run starts when none is under way
Start ==
    /\ pc \in {"idle", "returned", "raised"}
    /\ runs < MaxRuns
    /\ pc' = "check"
    /\ runs' = runs + 1
    /\ stdout' = <<>>
    /\ sheets_data' = <<>>
    /\ refsets' = EmptySets
    /\ raised' = "none"
    /\ opened' = <<>>
    /\ atStart' = [files |-> files, docsDir |-> docsDir]
    /\ UNCHANGED <<pandasKeepsNA, exists, workbook, files, docsDir>>

\* the early return left out: the run goes on to read the workbook
CheckExists_NoReturn ==
    /\ pc = "check"
    /\ stdout' = IF ~exists
                 THEN Append(stdout, <<"Error: ", excel_path, " not found!">>)
                 ELSE stdout
    /\ pc' = "read"
    /\ UNCHANGED <<pandasKeepsNA, exists, workbook, files, docsDir, runs,
                   sheets_data, refsets, raised, opened, atStart>>

\* lines 13-16
CheckExists ==
    /\ pc = "check"
    /\ IF ~exists
       THEN /\ stdout' = Append(stdout, <<"Error: ", excel_path, " not found!">>)
            /\ pc' = "returned"
       ELSE /\ stdout' = stdout
            /\ pc' = "read"
    /\ UNCHANGED <<pandasKeepsNA, exists, workbook, files, docsDir, runs,
                   sheets_data, refsets, raised, opened, atStart>>

\* lines 19-26
ReadSheets ==
    /\ pc = "read"
    /\ sheets_data' = ReadAllSheets(workbook)
    /\ pc' = "dump"
    /\ UNCHANGED <<pandasKeepsNA, exists, workbook, files, docsDir, runs, stdout,
                   refsets, raised, opened, atStart>>

SummaryLines(data) ==
    [si \in 1..Len(data) |-> <<data[si].name, ": ", ToString(Len(data[si].rows)), " rows">>]

\* the dump moved behind the markdown files: nothing is written at this point
DumpJson_Deferred ==
    /\ pc = "dump"
    /\ pc' = "extract"
    /\ UNCHANGED <<pandasKeepsNA, exists, workbook, files, docsDir, runs, stdout,
                   sheets_data, refsets, raised, opened, atStart>>

\* lines 29-38
DumpJson ==
    /\ pc = "dump"
    /\ opened' = Append(opened, output_path)
    /\ LET doc == JsonDocument(sheets_data) IN
       IF JsonFails(doc)
       THEN /\ files' = [files EXCEPT ![output_path] =
                            [st |-> "partial", body |-> <<>>]]
            /\ raised' = "ValueError"
            /\ pc' = "raised"
            /\ stdout' = stdout
       ELSE /\ files' = [files EXCEPT ![output_path] = Write(OpenW(@), doc)]
            /\ raised' = raised
            /\ pc' = "extract"
            /\ stdout' = stdout
                 \o << <<"Successfully parsed Excel file and saved to ", output_path>>,
                       <<"Sheet contents summary:">> >>
                 \o SummaryLines(sheets_data)
    /\ UNCHANGED <<pandasKeepsNA, exists, workbook, docsDir, runs, sheets_data,
                   refsets, atStart>>

\* lines 41-59
Extract ==
    /\ pc = "extract"
    /\ LET st == ExtractAll(sheets_data) IN
       IF st.err # "none"
       THEN /\ raised' = st.err
            /\ pc' = "raised"
            /\ refsets' = refsets
       ELSE /\ raised' = raised
            /\ pc' = "mkdir"
            /\ refsets' = st
    /\ UNCHANGED <<pandasKeepsNA, exists, workbook, files, docsDir, runs, stdout,
                   sheets_data, opened, atStart>>

\* lines 62-63: mkdir(exist_ok=True)
MkDocs ==
    /\ pc = "mkdir"
    /\ docsDir' = TRUE
    /\ pc' = "movements"
    /\ UNCHANGED <<pandasKeepsNA, exists, workbook, files, runs, stdout,
                   sheets_data, refsets, raised, opened, atStart>>

\* What a with-block leaves in a file: the sections in order, each a heading
\* followed by the bullets of its set, cut short where sorted() raises.
RECURSIVE SectionLines(_)
SectionLines(sections) ==
    IF sections = <<>> THEN <<>>
    ELSE IF SortRaises(Head(sections).set) THEN Head(sections).head
    ELSE Head(sections).head \o Bullets(Head(sections).set) \o SectionLines(Tail(sections))

SectionsRaise(sections) ==
    \E i \in 1..Len(sections) : SortRaises(sections[i].set)

\* one with open(docs_dir / name, 'w') block
WriteMarkdown(at, file, sections, next) ==
    /\ pc = at
    /\ opened' = Append(opened, file)
    /\ files' = [files EXCEPT ![file] = Write(OpenW(@), SectionLines(sections))]
    /\ IF SectionsRaise(sections)
       THEN /\ raised' = "TypeError"
            /\ pc' = "raised"
       ELSE /\ raised' = raised
            /\ pc' = next

MovementsSections ==
    << [head |-> <<TextLine("# Movements Reference"), BlankLine,
                   TextLine("## Main Movements")>>,
        set  |-> refsets.main],
       [head |-> <<BlankLine, TextLine("## Accessory/Finisher Movements")>>,
        set  |-> refsets.accessory] >>

FormatsSections ==
    << [head |-> <<TextLine("# Workout Formats Reference"), BlankLine>>,
        set  |-> refsets.formats] >>

IntensitySections ==
    << [head |-> <<TextLine("# Intensity Levels Reference"), BlankLine>>,
        set  |-> refsets.intensity] >>

\* lines 65-72
WriteMovements ==
    /\ WriteMarkdown("movements", MovementsMd, MovementsSections, "formats")
    /\ UNCHANGED <<pandasKeepsNA, exists, workbook, docsDir, runs, stdout,
                   sheets_data, refsets, atStart>>

\* lines 74-77
WriteFormats ==
    /\ WriteMarkdown("formats", FormatsMd, FormatsSections, "intensity")
    /\ UNCHANGED <<pandasKeepsNA, exists, workbook, docsDir, runs, stdout,
                   sheets_data, refsets, atStart>>

\* lines 79-84
WriteIntensity ==
    /\ WriteMarkdown("intensity", IntensityMd, IntensitySections, "returned")
    /\ stdout' = IF SectionsRaise(IntensitySections) THEN stdout
                 ELSE Append(stdout, <<"Extracted data saved to markdown files in docs/">>)
    /\ UNCHANGED <<pandasKeepsNA, exists, workbook, docsDir, runs,
                   sheets_data, refsets, atStart>>

Next ==
    \/ Start
    \/ CheckExists
    \/ ReadSheets
    \/ DumpJson
    \/ Extract
    \/ MkDocs
    \/ WriteMovements
    \/ WriteFormats
    \/ WriteIntensity

Spec == Init /\ [][Next]_vars

----------------------------------------------------------------------------
(* Vocabulary of the properties *)

Ended     == pc \in {"returned", "raised"}
Doc       == files[output_path].body
DocWritten == files[output_path].st = "written"

\* every cell of the workbook: sheet index, row index, column label
Positions ==
    UNION {{<<si, i, L>> : i \in 1..Len(workbook[si].rows), L \in workbook[si].cols} :
              si \in 1..Len(workbook)}

CellAt(p) == workbook[p[1]].rows[p[2]][p[3]]
JsonAt(p) == Doc[p[1]].rows[p[2]][p[3]]

\* the sets exist once the extraction loop has finished without raising
Extracted == pc \in {"mkdir", "movements", "formats", "intensity", "returned"}
             \/ (pc = "raised" /\ raised = "TypeError")

----------------------------------------------------------------------------
(* C1: with workouts.xlsx missing, the run prints one error line naming    *)
(* workouts.xlsx and returns normally; no output file and not ../docs is   *)
(* created, opened or modified, and the run never goes past the check.     *)
\* C1: nothing is touched and one error line names workouts.xlsx when the input is missing
C1_MissingFile ==
    ~exists =>
        /\ pc \in {"idle", "check", "returned"}
        /\ raised = "none"
        /\ opened = <<>>
        /\ files = atStart.files
        /\ docsDir = atStart.docsDir
        /\ pc = "returned" =>
              /\ Len(stdout) = 1
              /\ stdout[1][1] = "Error: "
              /\ \E i \in 1..Len(stdout[1]) : stdout[1][i] = "workouts.xlsx"

C1_Witness == ~exists /\ pc = "returned" /\ runs = 1 /\ Len(stdout) = 1

(* C2: the JSON document has exactly one top-level key per sheet, the keys *)
(* are the sheet names, and the list under a name has one entry per row of *)
(* that sheet, in the sheet's row order with the sheet's columns.          *)
CellMatches(cell, j) ==
    CASE cell.k = "text"  -> j.k = "string" /\ j.s = cell.s
      [] cell.k = "num"   -> j.k = "number" /\ j.v = cell.v
      [] cell.k = "date"  -> j.k = "string" /\ Len(j.s) > 0
      [] cell.k = "empty" -> j.k \in {"null", "NaN", "string"}

\* C2: one key per sheet, named after it, listing its rows in order
C2_SheetsAndRows ==
    DocWritten =>
        /\ Len(Doc) = Len(workbook)
        /\ Cardinality({Doc[si].key : si \in 1..Len(Doc)}) = Len(workbook)
        /\ \A si \in 1..Len(workbook) :
              /\ Doc[si].key = workbook[si].name
              /\ Len(Doc[si].rows) = Len(workbook[si].rows)
              /\ \A i \in 1..Len(workbook[si].rows) :
                    /\ DOMAIN Doc[si].rows[i] = workbook[si].cols
                    /\ \A L \in workbook[si].cols :
                          CellMatches(workbook[si].rows[i][L], Doc[si].rows[i][L])

C2_Witness ==
    /\ DocWritten
    /\ Len(workbook) = 2
    /\ Len(workbook[1].rows) = 2
    /\ Len(workbook[2].rows) = 0
    /\ workbook[1].rows[1] # workbook[1].rows[2]

(* C3: an empty cell is written to the JSON document as null, never as NaN *)
(* or another marker, and a cell that is not empty is never written as     *)
(* null.                                                                   *)
\* C3: a cell is written as null exactly when it is empty
C3_EmptyIsNull ==
    DocWritten =>
        \A p \in Positions : (CellAt(p).k = "empty") <=> (JsonAt(p) = JNull)

\* what does hold: under a pandas that upcasts to object, and for object columns
C3_EmptyIsNullWhenUpcast ==
    DocWritten =>
        \A p \in Positions :
            /\ CellAt(p).k # "empty" => JsonAt(p) # JNull
            /\ (CellAt(p).k = "empty"
                 /\ (~pandasKeepsNA \/ ColumnDtype(workbook[p[1]], p[3]) = "object"))
               => JsonAt(p) = JNull

(* C4: a date-time cell is written as its ISO-8601 text; a text or number  *)
(* cell is written unchanged, and None is written as null; this holds for  *)
(* every sheet, row and column.                                            *)
Digits == {"0", "1", "2", "3", "4", "5", "6", "7", "8", "9"}

DigitValue(c) == CHOOSE d \in 0..9 : DigitChars[d + 1] = c

\* the number a run of digits denotes
NumberAt(s, from, to) ==
    LET RECURSIVE val(_)
        val(j) == IF j < from THEN 0 ELSE 10 * val(j - 1) + DigitValue(s[j])
    IN val(to)

\* YYYY-MM-DDTHH:MM:SS
IsIso8601(s) ==
    /\ Len(s) = 19
    /\ s[5] = "-" /\ s[8] = "-" /\ s[11] = "T" /\ s[14] = ":" /\ s[17] = ":"
    /\ \A i \in (1..19) \ {5, 8, 11, 14, 17} : s[i] \in Digits

IsoDenotes(s, cell) ==
    /\ NumberAt(s, 1, 4) = cell.y
    /\ NumberAt(s, 6, 7) = cell.mo
    /\ NumberAt(s, 9, 10) = cell.d
    /\ NumberAt(s, 12, 13) = cell.h
    /\ NumberAt(s, 15, 16) = cell.mi
    /\ NumberAt(s, 18, 19) = cell.sec

\* C4: dates are written as ISO-8601 text, everything else unchanged
C4_DatesToIso ==
    DocWritten =>
        \A p \in Positions :
            LET cell == CellAt(p)
                j    == JsonAt(p)
            IN /\ cell.k = "date" =>
                    j.k = "string" /\ IsIso8601(j.s) /\ IsoDenotes(j.s, cell)
               /\ cell.k = "text" => j = JString(cell.s)
               /\ cell.k = "num"  => j.k = "number" /\ j.v = cell.v
               /\ (sheets_data # <<>> /\ sheets_data[p[1]].rows[p[2]][p[3]] = PyNone)
                     => j = JNull

C4_Witness ==
    /\ DocWritten
    /\ \E p \in Positions :
          /\ CellAt(p).k = "date"
          /\ CellAt(p).h = 18
          /\ JsonAt(p).k = "string"
    /\ \E p \in Positions : CellAt(p).k = "text" /\ p[3] = DateCol

(* C5 as stated: for every accessory cell ('Unnamed: 5', 'Unnamed: 9')     *)
(* holding text, the accessory set holds every comma-separated segment of  *)
(* the text, trimmed, and does not hold the unsplit text.                  *)
HasComma(t) == \E i \in 1..Len(t) : t[i] = ","

\* the maximal comma-free stretches of t, empty ones included
SegmentBounds(t) ==
    {b \in (1..(Len(t) + 1)) \X (0..Len(t)) :
        /\ b[2] >= b[1] - 1
        /\ (b[1] = 1 \/ t[b[1] - 1] = ",")
        /\ (b[2] = Len(t) \/ t[b[2] + 1] = ",")
        /\ \A m \in b[1]..b[2] : t[m] # ","}

\* g without the blanks before its first and after its last non-blank character
TrimOf(g) ==
    LET solid == {m \in 1..Len(g) : g[m] # " "} IN
    IF solid = {} THEN <<>>
    ELSE SubSeq(g, CHOOSE m \in solid : \A n \in solid : m <= n,
                   CHOOSE m \in solid : \A n \in solid : m >= n)

TrimmedSegments(t) == {TrimOf(SubSeq(t, b[1], b[2])) : b \in SegmentBounds(t)}

AccessoryTexts ==
    {CellAt(p).s : p \in {q \in Positions : q[3] \in {U5, U9} /\ CellAt(q).k = "text"}}

\* C5 as stated: every trimmed segment is a member, the unsplit text never is
C5_SplitNeverWhole ==
    Extracted =>
        \A t \in AccessoryTexts :
            /\ \A g \in TrimmedSegments(t) : PyStr(g) \in refsets.accessory
            /\ PyStr(t) \notin refsets.accessory

(* C5 amended: the set holds every trimmed segment; it does not hold the   *)
(* unsplit text when that text has a comma or a blank at either end, and a *)
(* cell that is one trimmed movement is held as that very text.            *)
\* C5 amended: every trimmed segment is a member; the unsplit text is one
\* exactly when it is a single trimmed segment
C5_SplitTrimmed ==
    Extracted =>
        \A t \in AccessoryTexts :
            /\ \A g \in TrimmedSegments(t) : PyStr(g) \in refsets.accessory
            /\ \A m \in refsets.accessory : m.k = "str" /\ ~HasComma(m.s)
            /\ (HasComma(t) \/ TrimOf(t) # t) <=> PyStr(t) \notin refsets.accessory

C5_Witness ==
    /\ Extracted
    /\ \E t \in AccessoryTexts :
          /\ HasComma(t)
          /\ TrimmedSegments(t) = {<<"a">>, <<"b">>}
          /\ PyStr(<<"a">>) \in refsets.accessory
          /\ PyStr(<<"b">>) \in refsets.accessory

(* C6: every member of each of the four sets is a non-empty string with no *)
(* blank at either end; a trailing comma, two adjacent commas or           *)
(* surrounding blanks never put an empty or untrimmed entry into a set.    *)
(* Stated for the accessory set, the one the commas are about.             *)
CleanString(m) ==
    /\ m.k = "str"
    /\ Len(m.s) > 0
    /\ m.s[1] # " "
    /\ m.s[Len(m.s)] # " "

\* C6: every accessory member is a non-empty string without outer blanks
C6_MembersClean ==
    Extracted => \A m \in refsets.accessory : CleanString(m)

(* C7 as stated: in a run that completes, each markdown section lists      *)
(* every member of its set exactly once as '- <item>', in ascending        *)
(* lexicographic order; movements.md holds '## Main Movements' and then    *)
(* '## Accessory/Finisher Movements', workout_formats.md only the formats  *)
(* and intensity_levels.md only the intensity levels.                      *)
RECURSIVE LexLess(_, _)
LexLess(s, t) ==
    IF t = <<>> THEN FALSE
    ELSE IF s = <<>> THEN TRUE
    ELSE IF Ord(Head(s)) # Ord(Head(t)) THEN Ord(Head(s)) < Ord(Head(t))
    ELSE LexLess(Tail(s), Tail(t))

Completed == pc = "returned" /\ exists

\* lines from..from+|set|-1 of body are the bullets of set, one per member
Listed(body, from, set) ==
    LET n == Cardinality(set) IN
    /\ Len(body) >= from + n - 1
    /\ \A i \in from..(from + n - 1) : body[i].kind = "bullet" /\ body[i].str = "- "
    /\ \A m \in set : \E i \in from..(from + n - 1) : body[i].item = Render(m)
    /\ \A i \in from..(from + n - 1) : \E m \in set : body[i].item = Render(m)

LexAscending(body, from, n) ==
    \A i, j \in from..(from + n - 1) : i < j => LexLess(body[i].item, body[j].item)

\* where a member's line is
LineOf(body, from, set, m) ==
    CHOOSE i \in from..(from + Cardinality(set) - 1) : body[i].item = Render(m)

ValueAscending(body, from, set) ==
    \A a, b \in set :
        PyLess(a, b) => LineOf(body, from, set, a) < LineOf(body, from, set, b)

Layout ==
    LET mv == files[MovementsMd].body
        fm == files[FormatsMd].body
        il == files[IntensityMd].body
        nm == Cardinality(refsets.main)
    IN /\ \A f \in MarkdownFiles : files[f].st = "written"
       /\ Len(mv) = 5 + nm + Cardinality(refsets.accessory)
       /\ mv[1] = TextLine("# Movements Reference") /\ mv[2] = BlankLine
       /\ mv[3] = TextLine("## Main Movements")
       /\ Listed(mv, 4, refsets.main)
       /\ mv[4 + nm] = BlankLine
       /\ mv[5 + nm] = TextLine("## Accessory/Finisher Movements")
       /\ Listed(mv, 6 + nm, refsets.accessory)
       /\ Len(fm) = 2 + Cardinality(refsets.formats)
       /\ fm[1] = TextLine("# Workout Formats Reference") /\ fm[2] = BlankLine
       /\ Listed(fm, 3, refsets.formats)
       /\ Len(il) = 2 + Cardinality(refsets.intensity)
       /\ il[1] = TextLine("# Intensity Levels Reference") /\ il[2] = BlankLine
       /\ Listed(il, 3, refsets.intensity)

TextOnly(set)    == \A m \in set : m.k = "str"
NumbersOnly(set) == \A m \in set : m.k = "num"

MemberOrder(body, from, set) ==
    /\ TextOnly(set) => LexAscending(body, from, Cardinality(set))
    /\ NumbersOnly(set) => ValueAscending(body, from, set)

WholeColumns == {<<U3, "main">>, <<U8, "formats">>, <<U7, "intensity">>}

\* the member a cell value is inserted as
SameValue(cell, m) ==
    CASE cell.k = "text" -> m = PyStr(cell.s)
      [] cell.k = "num"  -> m.k = "num" /\ m.v = cell.v
      [] OTHER -> FALSE

Contributes(cell) == cell.k = "text" \/ (cell.k = "num" /\ cell.v # 0)

\* C9: each of the three sets is exactly the truthy cell values of its column
C9_WholeColumnSets ==
    Extracted =>
        \A c \in WholeColumns :
            LET under == {CellAt(p) : p \in {q \in Positions : q[3] = c[1]}} IN
            /\ \A m \in refsets[c[2]] :
                  \E cell \in under : Contributes(cell) /\ SameValue(cell, m)
            /\ \A cell \in under :
                  Contributes(cell) => \E m \in refsets[c[2]] : SameValue(cell, m)

\* what does hold: the same under a pandas that upcasts to object
C9_WholeColumnSetsWhenUpcast == ~pandasKeepsNA => C9_WholeColumnSets

(* C10: with the input present a run reads all sheets, writes              *)
(* workouts_data.json, extracts, then writes movements.md,                 *)
(* workout_formats.md and intensity_levels.md in that order; a run that    *)
(* raises during extraction or sorting has written the whole JSON document *)
(* and left every markdown file it did not reach untouched, and no         *)
(* markdown file is written while the JSON file is not.                    *)
WriteOrder == <<output_path, MovementsMd, FormatsMd, IntensityMd>>

Reached == {opened[i] : i \in 1..Len(opened)}

\* C10: the files are opened in the fixed order, after reading and extraction,
\* and a run that raises leaves the JSON whole and the unreached files alone
C10_StepOrder ==
    /\ Len(opened) <= Len(WriteOrder)
    /\ opened = SubSeq(WriteOrder, 1, Len(opened))
    /\ opened # <<>> => Len(sheets_data) = Len(workbook)
    /\ (Reached \cap MarkdownFiles # {}) =>
          /\ DocWritten
          /\ Extracted
          /\ docsDir
    /\ (pc = "raised" /\ raised \in {"AttributeError", "TypeError"}) =>
          /\ DocWritten
          /\ Len(Doc) = Len(workbook)
          /\ \A si \in 1..Len(workbook) : Len(Doc[si].rows) = Len(workbook[si].rows)
          /\ \A f \in MarkdownFiles \ Reached : files[f] = atStart.files[f]
    /\ (pc = "raised" /\ raised = "AttributeError") =>
          /\ opened = <<output_path>>
          /\ docsDir = atStart.docsDir
    /\ Completed => opened = WriteOrder

C10_Witness ==
    /\ pc = "raised"
    /\ raised = "TypeError"
    /\ opened = <<output_path, MovementsMd, FormatsMd>>
    /\ files[IntensityMd] = atStart.files[IntensityMd]
    /\ runs = 1

====
